---------------------------- MODULE Spec2Model ----------------------------
(***************************************************************************)
(* A model of the openpaisdk CLI helpers (src/src/commands/utils.ts) and   *)
(* of the declarative API test-case table with its customized hooks        *)
(* (src/tests/common/apiTestCases.ts).                                     *)
(*                                                                         *)
(* Strings that the code takes apart (template text, the args string) are  *)
(* sequences of one-character strings; "{{" and "}}" are single tokens.    *)
(***************************************************************************)
EXTENDS Integers, Sequences, FiniteSets, TLC

VARIABLES
    \* jobTemplate: the call's inputs and its outcome
    tmpl,       \* the template as segments (the text is Flatten(tmpl))
    file,       \* argument `file`: the template text
    args,       \* argument `args`: undefined, null or a string
    tpc,        \* "call" before the call, "done" after it
    rendered,   \* what jobTemplate returned (or threw)
    logged,     \* number of 'Arguments input error' lines printed
    \* readJson / writeJson: the file system and the last call
    fs,         \* path -> nothing, a directory, or a file with its text
    jop,        \* the last call: its arguments and its outcome
    \* the execution of the test-case table against the remote service
    draws,      \* the strings crypto.randomBytes gave while the table was built
    table,      \* ApiDefaultTestCases, as built when the module was loaded
    entry,      \* index of the table entry being executed
    stage,      \* "idle", "before", "tests", "after" or "done"
    idx,        \* index of the next operation or variant of the stage
    opResults,  \* operationResults: beforeResults and testResults
    remote,     \* the state of the remote service
    budget,     \* how many calls the service may still answer off its documentation
    log,        \* the steps of the current entry executed so far
    \* the object randomString of the table's module
    randomString,   \* its field data, and the number of draws it has taken
    rsCalls         \* the calls of its methods so far, with what each returned

tvars == <<tmpl, file, args, tpc, rendered, logged>>
jvars == <<fs, jop>>
rvars == <<draws, table, entry, stage, idx, opResults, remote, budget, log,
           randomString, rsCalls>>

vars == <<tmpl, file, args, tpc, rendered, logged, fs, jop,
          draws, table, entry, stage, idx, opResults, remote, budget, log,
          randomString, rsCalls>>

-----------------------------------------------------------------------------
(* Bounds *)

\* number of ';'-separated entries an args string is built from
MaxEntries == 2
\* number of segments (literal characters, placeholders) of a template
MaxSegments == 3
\* number of elements of an array written by writeJson
MaxArrayLen == 1
\* number of calls, over a run of the table, that the remote service may
\* answer off its documentation
MaxFailures == 2
\* number of calls of the methods of randomString
MaxCalls == 4

-----------------------------------------------------------------------------
(* Values shared by the sub-models *)

Undefined == [t |-> "undefined"]
Null == [t |-> "null"]
Str(s) == [t |-> "string", s |-> s]

\* JavaScript's `x == null`: true of undefined and of null
IsNullish(x) == x.t \in {"undefined", "null"}

RECURSIVE Concat(_)
Concat(ss) == IF ss = <<>> THEN <<>> ELSE Head(ss) \o Concat(Tail(ss))

RECURSIVE Join(_, _)
Join(ss, sep) ==
    IF ss = <<>> THEN <<>>
    ELSE IF Len(ss) = 1 THEN ss[1]
    ELSE ss[1] \o <<sep>> \o Join(Tail(ss), sep)

SeqsUpTo(S, n) == UNION {[1..k -> S] : k \in 0..n}

-----------------------------------------------------------------------------
(* jobTemplate *)

\* String.prototype.split(sep) for a one-character separator: always at
\* least one piece; "" splits to [""].
RECURSIVE SplitAcc(_, _, _, _, _)
SplitAcc(s, sep, i, cur, acc) ==
    IF i > Len(s) THEN Append(acc, cur)
    ELSE IF s[i] = sep THEN SplitAcc(s, sep, i + 1, <<>>, Append(acc, cur))
    ELSE SplitAcc(s, sep, i + 1, Append(cur, s[i]), acc)

Split(s, sep) == SplitAcc(s, sep, 1, <<>>, <<>>)

EmptyMap == [k \in {} |-> <<>>]

\* argsMap[key] = value
Put(m, key, val) == [k \in DOMAIN m \cup {key} |-> IF k = key THEN val ELSE m[k]]

\* One turn of the for loop over argsArray; st = [map, log].  The mutant
\* gives up on the remaining pairs at the first malformed one.
MutArgsPairStep(st, argsPair) ==
    LET pairArray == Split(argsPair, ":")
    IN  IF st.stopped THEN st
        ELSE IF Len(pairArray) # 2
        THEN [st EXCEPT !.log = @ + 1, !.stopped = TRUE]
        ELSE [st EXCEPT !.map = Put(@, pairArray[1], pairArray[2])]

ArgsPairStep(st, argsPair) ==
    LET pairArray == Split(argsPair, ":")
    IN  IF Len(pairArray) # 2
        THEN [st EXCEPT !.log = @ + 1]
        ELSE [st EXCEPT !.map = Put(@, pairArray[1], pairArray[2])]

RECURSIVE ArgsLoop(_, _)
ArgsLoop(st, argsArray) ==
    IF argsArray = <<>> THEN st
    ELSE ArgsLoop(ArgsPairStep(st, Head(argsArray)), Tail(argsArray))

ParseArgs(s) == ArgsLoop([map |-> EmptyMap, log |-> 0, stopped |-> FALSE], Split(s, ";"))

\* nunjucks' autoescape of one character of a substituted value.  The
\* mutant is autoescape switched off.
MutEscapeChar(c) == <<c>>

EscapeChar(c) ==
    CASE c = "&"  -> <<"&", "a", "m", "p", ";">>
      [] c = "<"  -> <<"&", "l", "t", ";">>
      [] c = ">"  -> <<"&", "g", "t", ";">>
      [] c = "\"" -> <<"&", "q", "u", "o", "t", ";">>
      [] c = "'"  -> <<"&", "#", "3", "9", ";">>
      [] OTHER    -> <<c>>

RECURSIVE Escape(_)
Escape(s) == IF s = <<>> THEN <<>> ELSE EscapeChar(Head(s)) \o Escape(Tail(s))

\* index of the first "}}" at or after i, 0 when there is none
RECURSIVE CloseIndex(_, _)
CloseIndex(toks, i) ==
    IF i > Len(toks) THEN 0
    ELSE IF toks[i] = "}}" THEN i
    ELSE CloseIndex(toks, i + 1)

\* env.renderString(file, argsMap) on text whose "{{ }}" enclose a plain
\* variable name: a name of the context is replaced by its escaped value, a
\* name the context lacks by nothing; text outside "{{ }}" is copied.
\* [ok |-> FALSE] is nunjucks' parse error for a "{{" that is never closed.
RECURSIVE RenderFrom(_, _, _, _)
RenderFrom(toks, i, ctx, out) ==
    IF i > Len(toks) THEN [ok |-> TRUE, out |-> out]
    ELSE IF toks[i] = "{{"
    THEN LET j == CloseIndex(toks, i + 1)
             name == SubSeq(toks, i + 1, j - 1)
         IN  IF j = 0 THEN [ok |-> FALSE, out |-> <<>>]
             ELSE RenderFrom(toks, j + 1, ctx,
                      out \o (IF name \in DOMAIN ctx THEN Escape(ctx[name]) ELSE <<>>))
    ELSE RenderFrom(toks, i + 1, ctx, Append(out, toks[i]))

RenderString(text, ctx) == RenderFrom(text, 1, ctx, <<>>)

\* The mutant renders with an empty context when args is absent instead of
\* returning the text.
MutJobTemplate(f, a) ==
    LET parsed == IF IsNullish(a) THEN ParseArgs(<<>>) ELSE ParseArgs(a.s)
        r == RenderString(f, parsed.map)
    IN  [kind |-> IF r.ok THEN "return" ELSE "throw",
         value |-> r.out,
         argsMap |-> parsed.map,
         log |-> IF IsNullish(a) THEN 0 ELSE parsed.log]

\* jobTemplate(file, args): what it returns, the argsMap it built and the
\* number of lines it logged
jobTemplate(f, a) ==
    IF IsNullish(a)
    THEN [kind |-> "return", value |-> f, argsMap |-> EmptyMap, log |-> 0]
    ELSE LET parsed == ParseArgs(a.s)
             r == RenderString(f, parsed.map)
         IN  [kind |-> IF r.ok THEN "return" ELSE "throw",
              value |-> r.out,
              argsMap |-> parsed.map,
              log |-> parsed.log]

(* The inputs of the calls *)

Lit(c) == [k |-> "lit", v |-> <<c>>]
Var(n) == [k |-> "var", v |-> <<n>>]

Segments == {Lit("-"), Var("a"), Var("b"), Var("c")}

\* the text of a template given as segments
RECURSIVE Flatten(_)
Flatten(segs) ==
    IF segs = <<>> THEN <<>>
    ELSE LET s == Head(segs)
         IN  (IF s.k = "var" THEN <<"{{">> \o s.v \o <<"}}">> ELSE s.v)
                 \o Flatten(Tail(segs))

\* well-formed "key:value" entries and malformed ones (no ':', two ':',
\* the empty entry)
EntryPool == {
    <<"a", ":", "1">>, <<"b", ":", "2">>, <<"a", ":", "<">>,
    <<"a">>, <<"b", ":", "1", ":", "2">>, <<>> }

ArgsInputs ==
    {Undefined, Null} \cup {Str(Join(es, ";")) : es \in SeqsUpTo(EntryPool, MaxEntries)}

TemplateIdle ==
    /\ tmpl = <<>>
    /\ file = <<>>
    /\ args = Undefined
    /\ tpc = "idle"
    /\ rendered = [kind |-> "none", value |-> <<>>, argsMap |-> EmptyMap, log |-> 0]
    /\ logged = 0

TemplateInputs ==
    /\ tmpl \in SeqsUpTo(Segments, MaxSegments)
    /\ file = Flatten(tmpl)
    /\ args \in ArgsInputs
    /\ tpc = "call"
    /\ rendered = [kind |-> "none", value |-> <<>>, argsMap |-> EmptyMap, log |-> 0]
    /\ logged = 0

CallJobTemplate ==
    /\ tpc = "call"
    /\ rendered' = jobTemplate(file, args)
    /\ logged' = jobTemplate(file, args).log
    /\ tpc' = "done"
    /\ UNCHANGED <<tmpl, file, args>>
    /\ UNCHANGED <<jvars, rvars>>


(* What the claims about jobTemplate speak of, stated on the args string   *)
(* itself and not through the code's loop                                  *)

SepPositions(s, sep) == {i \in 1..Len(s) : s[i] = sep}

NthSep(s, sep, n) ==
    CHOOSE p \in SepPositions(s, sep) :
        Cardinality({q \in SepPositions(s, sep) : q < p}) = n - 1

EntryCount(s) == Cardinality(SepPositions(s, ";")) + 1

\* the k-th ';'-separated entry of s
EntryAt(s, k) ==
    LET from == IF k = 1 THEN 1 ELSE NthSep(s, ";", k - 1) + 1
        to == IF k = EntryCount(s) THEN Len(s) ELSE NthSep(s, ";", k) - 1
    IN  SubSeq(s, from, to)

\* an entry with exactly one ':'
WellFormedEntry(e) == Cardinality(SepPositions(e, ":")) = 1

WellFormedAt(s) == {k \in 1..EntryCount(s) : WellFormedEntry(EntryAt(s, k))}

KeyOf(e) == SubSeq(e, 1, NthSep(e, ":", 1) - 1)
ValueOf(e) == SubSeq(e, NthSep(e, ":", 1) + 1, Len(e))

KeysOf(s) == {KeyOf(EntryAt(s, k)) : k \in WellFormedAt(s)}

\* the value of the last well-formed entry of s for key
LastValue(s, key) ==
    LET ks == {k \in WellFormedAt(s) : KeyOf(EntryAt(s, k)) = key}
        last == CHOOSE k \in ks : \A j \in ks : j <= k
    IN  ValueOf(EntryAt(s, last))

\* s with its malformed entries removed
RECURSIVE WellFormedFrom(_, _)
WellFormedFrom(s, k) ==
    IF k > EntryCount(s) THEN <<>>
    ELSE (IF k \in WellFormedAt(s) THEN <<EntryAt(s, k)>> ELSE <<>>)
            \o WellFormedFrom(s, k + 1)

WithoutMalformed(s) == Join(WellFormedFrom(s, 1), ";")

HtmlEntity(c) ==
    CASE c = "&"  -> <<"&", "a", "m", "p", ";">>
      [] c = "<"  -> <<"&", "l", "t", ";">>
      [] c = ">"  -> <<"&", "g", "t", ";">>
      [] c = "\"" -> <<"&", "q", "u", "o", "t", ";">>
      [] c = "'"  -> <<"&", "#", "3", "9", ";">>
      [] OTHER    -> <<c>>

HtmlEscaped(v) == Concat([i \in 1..Len(v) |-> HtmlEntity(v[i])])

\* the text with each placeholder of a key of s replaced by that key's
\* value as it stands, and everything else left as it is
SubstitutedAsIs(segs, s) ==
    Concat([i \in 1..Len(segs) |->
        IF segs[i].k = "var" /\ segs[i].v \in KeysOf(s)
        THEN LastValue(s, segs[i].v)
        ELSE Flatten(<<segs[i]>>)])

\* the text with each placeholder of a key of s replaced by that key's
\* escaped value, every other placeholder by nothing, literal text kept
SubstitutedEscaped(segs, s) ==
    Concat([i \in 1..Len(segs) |->
        IF segs[i].k = "lit" THEN segs[i].v
        ELSE IF segs[i].v \in KeysOf(s) THEN HtmlEscaped(LastValue(s, segs[i].v))
        ELSE <<>>])

ExampleTemplate == <<Var("a"), Lit("-"), Var("b")>>
ExampleArgs == Str(<<"a", ":", "1", ";", "b", ":", "2">>)

\* C6: with args absent (undefined or null) jobTemplate returns the text
\* unchanged, placeholders included, and neither parses nor renders.
C6_AbsentArgsIdentity ==
    (tpc = "done" /\ IsNullish(args)) =>
        /\ rendered.kind = "return"
        /\ rendered.value = file
        /\ rendered.argsMap = EmptyMap
        /\ logged = 0

C6_Witness ==
    /\ tpc = "done"
    /\ args = Undefined
    /\ \E i \in 1..Len(file) : file[i] = "{{"
    /\ rendered.value = file

\* C7: an entry without exactly one ':' is logged and skipped, the call
\* does not fail, the entry adds no key to the mapping, and the well-formed
\* entries before and after it are applied as if it were not there.
C7_MalformedSkipped ==
    (tpc = "done" /\ ~IsNullish(args)) =>
        /\ rendered.kind = "return"
        /\ logged = EntryCount(args.s) - Cardinality(WellFormedAt(args.s))
        /\ DOMAIN rendered.argsMap = KeysOf(args.s)
        /\ \A key \in KeysOf(args.s) : rendered.argsMap[key] = LastValue(args.s, key)
        /\ rendered.value = jobTemplate(file, Str(WithoutMalformed(args.s))).value

C7_Witness ==
    /\ tpc = "done"
    /\ args = Str(<<"a", ";", "b", ":", "2">>)
    /\ file = Flatten(<<Var("b")>>)
    /\ logged = 1
    /\ rendered.value = <<"2">>

\* C8 as stated: every placeholder whose key has a well-formed entry is
\* replaced by that entry's value and the rest of the text is left as is.
C8_Original ==
    (tpc = "done" /\ ~IsNullish(args)) =>
        rendered.value = SubstitutedAsIs(tmpl, args.s)

\* C8 amended: every placeholder whose key has a well-formed entry is
\* replaced by the HTML-escaped value of the last such entry, every other
\* placeholder by the empty string, and literal text is kept;
\* jobTemplate("{{a}}-{{b}}", "a:1;b:2") = "1-2".
C8_SubstitutesEscaped ==
    (tpc = "done" /\ ~IsNullish(args)) =>
        /\ rendered.kind = "return"
        /\ rendered.value = SubstitutedEscaped(tmpl, args.s)
        /\ (tmpl = ExampleTemplate /\ args = ExampleArgs) =>
                rendered.value = <<"1", "-", "2">>

C8_Witness ==
    /\ tpc = "done"
    /\ tmpl = ExampleTemplate
    /\ args = ExampleArgs
    /\ rendered.value = <<"1", "-", "2">>

-----------------------------------------------------------------------------
(* readJson / writeJson *)

(* JSON values: [t, v] with v a number, a sequence of characters, a        *)
(* sequence of values or a function from keys (character sequences) to     *)
(* values.  JSON null is JavaScript's null.                                *)
JNull == Null
JBool(b) == [t |-> "bool", v |-> b]
JNum(n) == [t |-> "num", v |-> n]
JStr(cs) == [t |-> "str", v |-> cs]
JArr(vs) == [t |-> "arr", v |-> vs]
JObj(f) == [t |-> "obj", v |-> f]

EmptyObject == [k \in {} |-> JNull]

\* the order in which JSON.stringify visits the keys used here
KeyOrder == << <<"k">>, <<"m">> >>

EOL == "\n"

\* a string literal: quotes and backslashes are escaped
RECURSIVE QuoteChars(_)
QuoteChars(cs) ==
    IF cs = <<>> THEN <<>>
    ELSE (IF Head(cs) \in {"\"", "\\"} THEN <<"\\", Head(cs)>> ELSE <<Head(cs)>>)
            \o QuoteChars(Tail(cs))

Quote(cs) == <<"\"">> \o QuoteChars(cs) \o <<"\"">>

\* JSON.stringify(val): the text as tokens (punctuation, null, true, false,
\* a digit, and the characters of string literals)
RECURSIVE Stringify(_), StringifyElements(_), StringifyMembers(_, _, _)
Stringify(val) ==
    CASE val.t = "null" -> <<"null">>
      [] val.t = "bool" -> IF val.v THEN <<"true">> ELSE <<"false">>
      [] val.t = "num"  -> <<ToString(val.v)>>
      [] val.t = "str"  -> Quote(val.v)
      [] val.t = "arr"  -> <<"[">> \o StringifyElements(val.v) \o <<"]">>
      [] val.t = "obj"  -> <<"{">> \o StringifyMembers(val.v, 1, TRUE) \o <<"}">>

StringifyElements(vs) ==
    IF vs = <<>> THEN <<>>
    ELSE IF Len(vs) = 1 THEN Stringify(vs[1])
    ELSE Stringify(vs[1]) \o <<",">> \o StringifyElements(Tail(vs))

StringifyMembers(f, i, first) ==
    IF i > Len(KeyOrder) THEN <<>>
    ELSE IF KeyOrder[i] \notin DOMAIN f THEN StringifyMembers(f, i + 1, first)
    ELSE (IF first THEN <<>> ELSE <<",">>)
            \o Quote(KeyOrder[i]) \o <<":">> \o Stringify(f[KeyOrder[i]])
            \o StringifyMembers(f, i + 1, FALSE)

Digits == {"0", "1", "2", "3", "4", "5", "6", "7", "8", "9"}

DigitValue(d) == CHOOSE n \in 0..9 : ToString(n) = d

ParseFail == [ok |-> FALSE, val |-> JNull, next |-> 0]
Parsed(val, next) == [ok |-> TRUE, val |-> val, next |-> next]

\* JSON.parse: a recursive descent over the tokens
RECURSIVE ParseValue(_, _), ParseElements(_, _, _), ParseMembers(_, _, _),
          ParseChars(_, _, _)
ParseChars(t, i, acc) ==
    IF i > Len(t) THEN ParseFail
    ELSE IF t[i] = "\"" THEN Parsed(JStr(acc), i + 1)
    ELSE IF t[i] = "\\"
    THEN IF i + 1 <= Len(t) /\ t[i + 1] \in {"\"", "\\"}
         THEN ParseChars(t, i + 2, Append(acc, t[i + 1]))
         ELSE ParseFail
    ELSE ParseChars(t, i + 1, Append(acc, t[i]))

ParseElements(t, i, acc) ==
    LET r == ParseValue(t, i)
    IN  IF ~r.ok \/ r.next > Len(t) THEN ParseFail
        ELSE IF t[r.next] = "," THEN ParseElements(t, r.next + 1, Append(acc, r.val))
        ELSE IF t[r.next] = "]" THEN Parsed(JArr(Append(acc, r.val)), r.next + 1)
        ELSE ParseFail

ParseMembers(t, i, acc) ==
    IF i > Len(t) \/ t[i] # "\"" THEN ParseFail
    ELSE LET key == ParseChars(t, i + 1, <<>>)
         IN  IF ~key.ok \/ key.next > Len(t) \/ t[key.next] # ":" THEN ParseFail
             ELSE LET r == ParseValue(t, key.next + 1)
                      obj == [k \in DOMAIN acc \cup {key.val.v} |->
                                 IF k = key.val.v THEN r.val ELSE acc[k]]
                  IN  IF ~r.ok \/ r.next > Len(t) THEN ParseFail
                      ELSE IF t[r.next] = "," THEN ParseMembers(t, r.next + 1, obj)
                      ELSE IF t[r.next] = "}" THEN Parsed(JObj(obj), r.next + 1)
                      ELSE ParseFail

ParseValue(t, i) ==
    IF i > Len(t) THEN ParseFail
    ELSE CASE t[i] = "null"  -> Parsed(JNull, i + 1)
           [] t[i] = "true"  -> Parsed(JBool(TRUE), i + 1)
           [] t[i] = "false" -> Parsed(JBool(FALSE), i + 1)
           [] t[i] \in Digits -> Parsed(JNum(DigitValue(t[i])), i + 1)
           [] t[i] = "\""    -> ParseChars(t, i + 1, <<>>)
           [] t[i] = "["     ->
                IF i + 1 <= Len(t) /\ t[i + 1] = "]"
                THEN Parsed(JArr(<<>>), i + 2)
                ELSE ParseElements(t, i + 1, <<>>)
           [] t[i] = "{"     ->
                IF i + 1 <= Len(t) /\ t[i + 1] = "}"
                THEN Parsed(JObj(EmptyObject), i + 2)
                ELSE ParseMembers(t, i + 1, EmptyObject)
           [] OTHER          -> ParseFail

RECURSIVE SkipSpace(_, _)
SkipSpace(t, i) == IF i <= Len(t) /\ t[i] = EOL THEN SkipSpace(t, i + 1) ELSE i

\* JSON.parse(text): one value, white space allowed around it
JsonParse(t) ==
    LET r == ParseValue(t, SkipSpace(t, 1))
    IN  IF r.ok /\ SkipSpace(t, r.next) > Len(t) THEN r ELSE ParseFail

(* The file system: a node for every path the calls can touch *)

None == [t |-> "none", text |-> <<>>]
Dir == [t |-> "dir", text |-> <<>>]
File(text) == [t |-> "file", text |-> text]

PathPool == { <<"f">>, <<"d">>, <<"d", "e", "f">> }

Nodes == UNION {{SubSeq(p, 1, k) : k \in 1..Len(p)} : p \in PathPool}

\* path.dirname
dirname(p) == SubSeq(p, 1, Len(p) - 1)

NodeAt(fsys, p) == IF p = <<>> THEN Dir ELSE fsys[p]

Return(v) == [kind |-> "return", value |-> v]
Throw == [kind |-> "throw", value |-> Undefined]

\* fs.ensureDir(dir): mkdir -p; fails when a file is in the way
RECURSIVE ensureDir(_, _)
ensureDir(fsys, d) ==
    IF NodeAt(fsys, d).t = "dir" THEN [ok |-> TRUE, fs |-> fsys]
    ELSE IF NodeAt(fsys, d).t = "file" THEN [ok |-> FALSE, fs |-> fsys]
    ELSE LET up == ensureDir(fsys, dirname(d))
         IN  IF up.ok THEN [ok |-> TRUE, fs |-> [up.fs EXCEPT ![d] = Dir]]
             ELSE [ok |-> FALSE, fs |-> fsys]

\* fs.writeJSON(pth, val): the text of val and a newline replace the file;
\* fails when the parent is no directory or pth is one
FsWriteJson(fsys, pth, val) ==
    IF NodeAt(fsys, dirname(pth)).t = "dir" /\ fsys[pth].t # "dir"
    THEN [ok |-> TRUE, fs |-> [fsys EXCEPT ![pth] = File(Stringify(val) \o <<EOL>>)]]
    ELSE [ok |-> FALSE, fs |-> fsys]

\* fs.readJson(pth): fails when pth is no file or its text is no JSON
FsReadJson(fsys, pth) ==
    IF fsys[pth].t = "file" THEN JsonParse(fsys[pth].text) ELSE ParseFail

\* The mutant returns val from the catch block whatever val is.
MutReadJson(fsys, pth, val) ==
    LET data == FsReadJson(fsys, pth)
    IN  IF data.ok THEN Return(data.val) ELSE Return(val)

\* readJson(pth, val)
readJson(fsys, pth, val) ==
    LET data == FsReadJson(fsys, pth)
    IN  IF data.ok THEN Return(data.val)
        ELSE IF IsNullish(val) THEN Throw
        ELSE Return(val)

\* The mutant does not create the parent directories.
MutWriteJson(fsys, pth, val) == FsWriteJson(fsys, pth, val)

\* writeJson(pth, val): [ok, fs]
writeJson(fsys, pth, val) ==
    LET made == ensureDir(fsys, dirname(pth))
    IN  IF made.ok THEN FsWriteJson(made.fs, pth, val) ELSE [ok |-> FALSE, fs |-> fsys]

(* The inputs of the calls *)

ArrayElements == {JNull, JNum(1), JStr(<<"s", "\"">>)}

Member(key, v) == [k \in {key} |-> v]
Members(vk, vm) == [k \in {<<"k">>, <<"m">>} |-> IF k = <<"k">> THEN vk ELSE vm]

Objects ==
    {JObj(EmptyObject),
     JObj(Member(<<"m">>, JBool(TRUE))),
     JObj(Members(JNum(1), JArr(<<JNull>>))),
     JObj(Members(JObj(Member(<<"k">>, JBool(FALSE))), JStr(<<"\\">>)))}

\* what writeJson is given: arrays and objects
JsonValues == {JArr(vs) : vs \in SeqsUpTo(ArrayElements, MaxArrayLen)} \cup Objects

\* what readJson is given as val
Fallbacks == {Undefined, Null, JObj(EmptyObject), JArr(<<JNum(1)>>)}

\* texts of the files present at the start: an empty file, a truncated
\* one, and JSON written without a final newline
InitTexts == { <<>>, <<"{">>, <<"[", "1", "]">> }

Consistent(fsys) ==
    \A p \in Nodes : fsys[p].t # "none" => NodeAt(fsys, dirname(p)).t = "dir"

InitFileSystems ==
    {fsys \in [Nodes -> {None, Dir} \cup {File(t) : t \in InitTexts}] : Consistent(fsys)}

\* the strict ancestors of p below the root
Ancestors(p) == {SubSeq(p, 1, k) : k \in 1..(Len(p) - 1)}

\* a file where a directory is needed, or a directory where the file goes
Obstructed(fsys, p) ==
    \/ \E a \in Ancestors(p) : fsys[a].t = "file"
    \/ fsys[p].t = "dir"

NoCall ==
    [op |-> "none", pth |-> <<>>, val |-> Undefined, kind |-> "none", value |-> Undefined,
     parentMissing |-> FALSE, existed |-> FALSE, obstructed |-> FALSE]

JsonIdle ==
    /\ fs = [p \in Nodes |-> None]
    /\ jop = NoCall

JsonInputs ==
    /\ fs \in InitFileSystems
    /\ jop = NoCall

CallReadJson ==
    \E pth \in PathPool, val \in Fallbacks :
        /\ jop.op # "idle"
        /\ jop' = [op |-> "read", pth |-> pth, val |-> val,
                   kind |-> readJson(fs, pth, val).kind,
                   value |-> readJson(fs, pth, val).value,
                   parentMissing |-> FALSE, existed |-> fs[pth].t = "file",
                   obstructed |-> FALSE]
        /\ UNCHANGED fs
        /\ UNCHANGED <<tvars, rvars>>

CallWriteJson ==
    \E pth \in PathPool, val \in JsonValues :
        /\ jop.op # "idle"
        /\ fs' = writeJson(fs, pth, val).fs
        /\ jop' = [op |-> "write", pth |-> pth, val |-> val,
                   kind |-> IF writeJson(fs, pth, val).ok THEN "return" ELSE "throw",
                   value |-> Undefined,
                   parentMissing |-> NodeAt(fs, dirname(pth)).t = "none",
                   existed |-> fs[pth].t = "file",
                   obstructed |-> Obstructed(fs, pth)]
        /\ UNCHANGED <<tvars, rvars>>

\* the text is that of a JSON value, with or without the final newline
IsTextOf(text, v) == text \in {Stringify(v), Stringify(v) \o <<EOL>>}

KnownValues == JsonValues \cup {JArr(<<JNum(1)>>)}

\* C4: when the read or the parse fails, readJson returns the fallback if
\* one was given (not undefined, not null) and fails otherwise; when the
\* file holds JSON it returns the parsed structure, never the fallback.
C4_ReadJsonFallback ==
    (jop.op = "read") =>
        IF fs[jop.pth].t = "file" /\ \E v \in KnownValues : IsTextOf(fs[jop.pth].text, v)
        THEN /\ jop.kind = "return"
             /\ jop.value \in KnownValues
             /\ IsTextOf(fs[jop.pth].text, jop.value)
        ELSE IF IsNullish(jop.val) THEN jop.kind = "throw"
        ELSE jop.kind = "return" /\ jop.value = jop.val

C4_Witness ==
    /\ jop.op = "read"
    /\ fs[jop.pth].t = "none"
    /\ jop.val = JObj(EmptyObject)
    /\ jop.kind = "return"
    /\ jop.value = jop.val

\* C5: writeJson(path, value) completes unless a file stands where a
\* directory is needed or a directory where the file goes; when it has
\* completed, the parent directories exist, and readJson(path) returns a
\* structure equal to value, whatever the file held before.
C5_WriteReadRoundTrip ==
    (jop.op = "write") =>
        /\ (jop.kind = "return") <=> ~jop.obstructed
        /\ (jop.kind = "return") =>
              /\ \A a \in Ancestors(jop.pth) : fs[a].t = "dir"
              /\ readJson(fs, jop.pth, Undefined) = Return(jop.val)

C5_Witness ==
    /\ jop.op = "write"
    /\ jop.kind = "return"
    /\ jop.parentMissing
    /\ jop.val = JObj(Members(JNum(1), JArr(<<JNull>>)))
    /\ readJson(fs, jop.pth, Undefined) = Return(jop.val)

C5_WitnessOverwrite ==
    /\ jop.op = "write"
    /\ jop.kind = "return"
    /\ jop.existed

-----------------------------------------------------------------------------
(* The API test-case table *)

\* clustersJson[0]: the cluster descriptor of the fixture file
clustersJson0 ==
    [username |-> "admin", password |-> "admin_password",
     rest_server_uri |-> "rest_server", token |-> "admin_token"]

\* record spread: { ...a, ...b }
Spread(a, b) == [k \in DOMAIN a \cup DOMAIN b |-> IF k \in DOMAIN b THEN b[k] ELSE a[k]]

Raw(v) == [type |-> "raw", value |-> v]

\* a resultPath step is a property key: the index 0 is the key "0"
FromResult(resultType, resultPath, resultIndex) ==
    [type |-> "fromResult", resultType |-> resultType,
     resultPath |-> resultPath, resultIndex |-> resultIndex]

(* class RandomString: rs = [data, n]; data = "" is `undefined`, n counts  *)
(* the calls of crypto.randomBytes, whose results are the draws d          *)
NewRandomString == [data |-> "", n |-> 0]
RsNew(rs, d) == [data |-> d[rs.n + 1], n |-> rs.n + 1]
\* The mutant keeps returning the first string that was generated.
MutRsGet(rs, d) == IF rs.data # "" THEN [rs EXCEPT !.data = d[1]] ELSE RsNew(rs, d)

RsGet(rs, d) == IF rs.data # "" THEN rs ELSE RsNew(rs, d)

createTestUser ==
    [tag |-> "user", operationId |-> "createUser",
     parameters |-> <<Raw([username |-> "sdk_test_user", password |-> "test_password"])>>]

\* The mutant deletes a user of another name.
MutDeleteTestUser ==
    [tag |-> "user", operationId |-> "deleteUser", parameters |-> <<Raw("sdk_test_user2")>>]

deleteTestUser ==
    [tag |-> "user", operationId |-> "deleteUser", parameters |-> <<Raw("sdk_test_user")>>]

createTestGroup ==
    [tag |-> "group", operationId |-> "createGroup",
     parameters |-> <<Raw([groupname |-> "sdktestgroup"])>>]

deleteTestGroup ==
    [tag |-> "group", operationId |-> "deleteGroup", parameters |-> <<Raw("sdktestgroup")>>]

\* the job configuration of test_data/testJobConfig
testJobConfig == [name |-> "sdk_test_job", type |-> "job"]

\* createTestJob(): [op, rs]
createTestJob(rs, d) ==
    LET r == RsNew(rs, d)
    IN  [op |-> [tag |-> "job", operationId |-> "createJob",
                 parameters |->
                    <<Raw(Spread(testJobConfig, [name |-> "sdk_test_job" \o r.data]))>>],
         rs |-> r]

\* updateTestJobExecutionType(executionType): [op, rs]
updateTestJobExecutionType(executionType, rs, d) ==
    LET r == RsGet(rs, d)
    IN  [op |-> [tag |-> "job", operationId |-> "updateJobExecutionType",
                 parameters |-> <<Raw(clustersJson0.username),
                                  Raw("sdk_test_job" \o r.data),
                                  Raw(executionType)>>],
         rs |-> r]

createApplicationToken == [tag |-> "token", operationId |-> "createApplicationToken"]

\* The mutant reads the token of the second result of the list.
MutTokenOf(resultType) == FromResult(resultType, <<"token">>, 1)

TokenOf(resultType) == FromResult(resultType, <<"token">>, 0)

deleteTokenOf(resultType) ==
    [tag |-> "token", operationId |-> "deleteToken", parameters |-> <<TokenOf(resultType)>>]

GetTokensCase ==
    [key |-> "get /api/v2/tokens",
     before |-> <<createApplicationToken>>,
     tests |-> <<[description |-> "Get tokens with user token"],
                 [description |-> "Get tokens with unauthorized token",
                  customizedTest |-> "getTokensWithUnauthorizedUser"]>>,
     after |-> <<deleteTokenOf("beforeResults")>>]

DeleteTokenCase ==
    [key |-> "delete /api/v2/tokens/{token}",
     before |-> <<createApplicationToken>>,
     tests |-> <<[operation |-> [parameters |-> <<TokenOf("beforeResults")>>]]>>]

PostApplicationTokenCase ==
    [key |-> "post /api/v2/tokens/application",
     tests |-> << <<>> >>,
     after |-> <<deleteTokenOf("testResults")>>]

\* The mutant expects 401 of the login with an incorrect password.
MutBasicLoginCase ==
    [key |-> "post /api/v2/authn/basic/login",
     tests |-> <<
        [description |-> "login with correct username and password",
         operation |-> [parameters |->
            <<Raw(clustersJson0.username), Raw(clustersJson0.password)>>]],
        [description |-> "login with non-existent username",
         operation |-> [parameters |-> <<Raw("nonexistentuser"), Raw("password")>>,
            response |-> [statusCode |-> 400,
                expectResult |-> [code |-> "NoUserError",
                                  message |-> "User nonexistentuser is not found."]]]],
        [description |-> "login with incorrect password",
         operation |-> [parameters |->
            <<Raw(clustersJson0.username), Raw("incorrectpassword")>>,
            response |-> [statusCode |-> 401,
                expectResult |-> [code |-> "IncorrectPasswordError",
                                  message |-> "Password is incorrect."]]]]>>,
     after |-> <<deleteTokenOf("testResults")>>]

BasicLoginCase ==
    [key |-> "post /api/v2/authn/basic/login",
     tests |-> <<
        [description |-> "login with correct username and password",
         operation |-> [parameters |->
            <<Raw(clustersJson0.username), Raw(clustersJson0.password)>>]],
        [description |-> "login with non-existent username",
         operation |-> [parameters |-> <<Raw("nonexistentuser"), Raw("password")>>,
            response |-> [statusCode |-> 400,
                expectResult |-> [code |-> "NoUserError",
                                  message |-> "User nonexistentuser is not found."]]]],
        [description |-> "login with incorrect password",
         operation |-> [parameters |->
            <<Raw(clustersJson0.username), Raw("incorrectpassword")>>,
            response |-> [statusCode |-> 400,
                expectResult |-> [code |-> "IncorrectPasswordError",
                                  message |-> "Password is incorrect."]]]]>>,
     after |-> <<deleteTokenOf("testResults")>>]

BasicLogoutCase ==
    [key |-> "delete /api/v2/authn/basic/logout",
     before |-> <<[tag |-> "authn", operationId |-> "basicLogin",
                   parameters |->
                      <<Raw(clustersJson0.username), Raw(clustersJson0.password)>>]>>,
     tests |-> <<[description |-> "Logout with correct token",
                  customizedTest |-> "logoutWithCorrectToken"],
                 [description |-> "Logout with incorrect token",
                  customizedTest |-> "logoutWithIncorrectToken"]>>]

\* The mutant's conflict variant creates a user of another name.
MutPostUsersCase ==
    [key |-> "post /api/v2/users",
     before |-> <<createApplicationToken>>,
     tests |-> <<[description |-> "Create a user", operation |-> createTestUser],
                 [description |-> "Create a conflict user",
                  operation |-> [tag |-> "user", operationId |-> "createUser",
                                 parameters |-> <<Raw([username |-> "sdk_test_user2",
                                                       password |-> "test_password"])>>,
                                 response |-> [statusCode |-> 409]]],
                 [description |-> "Create a user by application token",
                  customizedTest |-> "createUserByApplicationToken"],
                 [description |-> "Create a user by non-admin user token",
                  customizedTest |-> "createUserByNonadminToken"]>>,
     after |-> <<deleteTestUser, deleteTokenOf("beforeResults")>>]

PostUsersCase ==
    [key |-> "post /api/v2/users",
     before |-> <<createApplicationToken>>,
     tests |-> <<[description |-> "Create a user", operation |-> createTestUser],
                 [description |-> "Create a conflict user",
                  operation |-> Spread(createTestUser, [response |-> [statusCode |-> 409]])],
                 [description |-> "Create a user by application token",
                  customizedTest |-> "createUserByApplicationToken"],
                 [description |-> "Create a user by non-admin user token",
                  customizedTest |-> "createUserByNonadminToken"]>>,
     after |-> <<deleteTestUser, deleteTokenOf("beforeResults")>>]

PutUsersCase ==
    [key |-> "put /api/v2/users",
     before |-> <<createTestUser>>,
     tests |-> <<
        [description |-> "patch: true",
         operation |-> [parameters |->
            <<Raw([username |-> "sdk_test_user", email |-> "new_email@test1.com"])>>]],
        [description |-> "patch: false",
         operation |-> [parameters |->
            <<Raw([username |-> "sdk_test_user", email |-> "new_email@test2.com",
                   virtualCluster |-> <<"default">>, admin |-> FALSE,
                   password |-> "new_test_password", extension |-> <<>>]),
              Raw(FALSE)>>]]>>,
     after |-> <<deleteTestUser>>]

PutUsersMeCase ==
    [key |-> "put /api/v2/users/me",
     tests |-> <<
        [description |-> "patch: true",
         operation |-> [parameters |->
            <<Raw([username |-> clustersJson0.username, email |-> "new_email@test1.com"])>>]],
        [description |-> "patch: false",
         operation |-> [parameters |->
            <<Raw([username |-> clustersJson0.username, email |-> "new_email@test2.com",
                   oldPassword |-> clustersJson0.password,
                   newPassword |-> clustersJson0.password]),
              Raw(FALSE)>>]]>>]

GetUserCase ==
    [key |-> "get /api/v2/users/{user}",
     tests |-> <<[operation |-> [parameters |-> <<Raw(clustersJson0.username)>>]]>>]

DeleteUserCase ==
    [key |-> "delete /api/v2/users/{user}",
     before |-> <<createTestUser>>,
     tests |-> <<[operation |-> deleteTestUser]>>]

PostGroupsCase ==
    [key |-> "post /api/v2/groups",
     tests |-> <<[operation |-> createTestGroup]>>,
     after |-> <<deleteTestGroup>>]

PutGroupsCase ==
    [key |-> "put /api/v2/groups",
     before |-> <<createTestGroup>>,
     tests |-> <<[operation |-> [parameters |->
        <<Raw([data |-> [groupname |-> "sdktestgroup", description |-> "test update group"],
               patch |-> TRUE])>>]]>>,
     after |-> <<deleteTestGroup>>]

GetGroupCase ==
    [key |-> "get /api/v2/groups/{group}",
     before |-> <<createTestGroup>>,
     tests |-> <<[operation |-> [parameters |-> <<Raw("sdktestgroup")>>]]>>,
     after |-> <<deleteTestGroup>>]

DeleteGroupCase ==
    [key |-> "delete /api/v2/groups/{group}",
     before |-> <<createTestGroup>>,
     tests |-> <<[operation |-> deleteTestGroup]>>]

GetVirtualClusterCase ==
    [key |-> "get /api/v2/virtual-clusters/{vc}",
     tests |-> <<[operation |-> [parameters |-> <<Raw("default")>>]]>>]

GetSkuTypesCase ==
    [key |-> "get /api/v2/virtual-clusters/{vc}/sku-types",
     tests |-> <<[operation |-> [parameters |-> <<Raw("default")>>]]>>]

GetStorageCase ==
    [key |-> "get /api/v2/storages/{storage}",
     before |-> <<[tag |-> "storage", operationId |-> "getStorages"]>>,
     tests |-> <<[operation |-> [parameters |->
        <<FromResult("beforeResults", <<"storages", "0", "name">>, 0)>>]]>>]

(* The job entries: each returns [case, rs], the entry and the state of    *)
(* randomString after the entry's expressions were evaluated in source     *)
(* order (before, tests, after)                                            *)

PostJobsCase(rs, d) ==
    LET t == createTestJob(rs, d)
        a == updateTestJobExecutionType("STOP", t.rs, d)
    IN  [case |-> [key |-> "post /api/v2/jobs",
                   tests |-> <<[operation |-> t.op]>>,
                   after |-> <<a.op>>],
         rs |-> a.rs]

\* the entries that read the job: before createTestJob(), one test whose
\* parameters name the job through randomString.get(), after STOP
ReadJobCase(key, more, rs, d) ==
    LET b == createTestJob(rs, d)
        t == RsGet(b.rs, d)
        a == updateTestJobExecutionType("STOP", t, d)
    IN  [case |-> [key |-> key,
                   before |-> <<b.op>>,
                   tests |-> <<[operation |-> [parameters |->
                        <<Raw(clustersJson0.username), Raw("sdk_test_job" \o t.data)>> \o more]]>>,
                   after |-> <<a.op>>],
         rs |-> a.rs]

GetJobCase(rs, d) == ReadJobCase("get /api/v2/jobs/{user}~{job}", <<>>, rs, d)

GetJobConfigCase(rs, d) == ReadJobCase("get /api/v2/jobs/{user}~{job}/config", <<>>, rs, d)

PutExecutionTypeCase(rs, d) ==
    LET b == createTestJob(rs, d)
        t1 == updateTestJobExecutionType("STOP", b.rs, d)
        t2 == updateTestJobExecutionType("START", t1.rs, d)
        a == updateTestJobExecutionType("STOP", t2.rs, d)
    IN  [case |-> [key |-> "put /api/v2/jobs/{user}~{job}/exectionType",
                   before |-> <<b.op>>,
                   tests |-> <<[description |-> "update job execution type to STOP",
                                operation |-> t1.op],
                               [description |-> "update job execution type to START",
                                operation |-> t2.op]>>,
                   after |-> <<a.op>>],
         rs |-> a.rs]

GetJobAttemptsCase(rs, d) ==
    ReadJobCase("get /api/v2/jobs/{user}~{job}/job-attempts", <<>>, rs, d)

GetJobAttemptCase(rs, d) ==
    ReadJobCase("get /api/v2/jobs/{user}~{job}/job-attempts/{attemptIndex}",
                <<Raw(0)>>, rs, d)

\* ApiDefaultTestCases, its entries in source order, built with the draws d
ApiDefaultTestCases(d) ==
    LET j1 == PostJobsCase(NewRandomString, d)
        j2 == GetJobCase(j1.rs, d)
        j3 == GetJobConfigCase(j2.rs, d)
        j4 == PutExecutionTypeCase(j3.rs, d)
        j5 == GetJobAttemptsCase(j4.rs, d)
        j6 == GetJobAttemptCase(j5.rs, d)
    IN  <<GetTokensCase, DeleteTokenCase, PostApplicationTokenCase, BasicLoginCase,
          BasicLogoutCase, PostUsersCase, PutUsersCase, PutUsersMeCase, GetUserCase,
          DeleteUserCase, PostGroupsCase, PutGroupsCase, GetGroupCase, DeleteGroupCase,
          GetVirtualClusterCase, GetSkuTypesCase, GetStorageCase,
          j1.case, j2.case, j3.case, j4.case, j5.case, j6.case>>

\* the optional fields of an entry, a variant, an operation
Field(r, name, default) == IF name \in DOMAIN r THEN r[name] ELSE default

-----------------------------------------------------------------------------
(* The remote job-management service, as far as the table exercises it *)

Response(status, body, r) == [status |-> status, body |-> body, remote |-> r]

Error(status, code, message, r) ==
    Response(status, [code |-> code, message |-> message], r)

Ok(status, r) == Response(status, [message |-> "ok"], r)

With(f, key, val) == [k \in DOMAIN f \cup {key} |-> IF k = key THEN val ELSE f[k]]
Without(f, key) == [k \in DOMAIN f \ {key} |-> f[k]]

\* the service before the first entry runs: the cluster's administrator
\* and token, one storage, no test user, group or job
InitialRemote ==
    [users |-> [u \in {clustersJson0.username} |->
                    [password |-> clustersJson0.password, admin |-> TRUE]],
     groups |-> {},
     tokens |-> [t \in {clustersJson0.token} |->
                    [user |-> clustersJson0.username, application |-> FALSE]],
     storages |-> <<"storage0">>,
     jobs |-> [j \in {} |-> "NONE"],
     issued |-> 0]

NewToken(r) == "token" \o ToString(r.issued + 1)

Issue(r, user, application) ==
    [r EXCEPT !.tokens = With(@, NewToken(r), [user |-> user, application |-> application]),
              !.issued = @ + 1]

\* an array as the object of its indices: [a, b] is {"0": a, "1": b}
ArrayOf(vs) == [i \in {ToString(k - 1) : k \in 1..Len(vs)} |->
                   vs[CHOOSE k \in 1..Len(vs) : ToString(k - 1) = i]]

\* what the service does with an authorized call
Serve(r, caller, operationId, a) ==
    CASE operationId = "createApplicationToken" ->
            Response(200, [token |-> NewToken(r), application |-> TRUE], Issue(r, caller, TRUE))
      [] operationId = "getTokens" ->
            Response(200, [tokens |-> {t \in DOMAIN r.tokens : r.tokens[t].user = caller}], r)
      [] operationId = "deleteToken" ->
            IF a[1] \in DOMAIN r.tokens
            THEN Ok(200, [r EXCEPT !.tokens = Without(@, a[1])])
            ELSE Error(404, "NoTokenError", "Token is not found.", r)
      [] operationId = "basicLogout" ->
            Response(200, "Logout successfully", r)
      [] operationId = "createUser" ->
            IF a[1].username \in DOMAIN r.users
            THEN Error(409, "ConflictUserError", "User already exists.", r)
            ELSE Ok(201, [r EXCEPT !.users = With(@, a[1].username,
                            [password |-> a[1].password, admin |-> Field(a[1], "admin", FALSE)])])
      [] operationId = "updateUser" ->
            IF a[1].username \in DOMAIN r.users THEN Ok(201, r)
            ELSE Error(404, "NoUserError", "User " \o a[1].username \o " is not found.", r)
      [] operationId = "updateUserSelf" -> Ok(201, r)
      [] operationId = "getUser" ->
            IF a[1] \in DOMAIN r.users THEN Response(200, [username |-> a[1]], r)
            ELSE Error(404, "NoUserError", "User " \o a[1] \o " is not found.", r)
      [] operationId = "deleteUser" ->
            IF a[1] \in DOMAIN r.users THEN Ok(200, [r EXCEPT !.users = Without(@, a[1])])
            ELSE Error(404, "NoUserError", "User " \o a[1] \o " is not found.", r)
      [] operationId = "createGroup" ->
            IF a[1].groupname \in r.groups
            THEN Error(409, "ConflictGroupError", "Group already exists.", r)
            ELSE Ok(201, [r EXCEPT !.groups = @ \cup {a[1].groupname}])
      [] operationId = "updateGroup" ->
            IF a[1].data.groupname \in r.groups THEN Ok(201, r)
            ELSE Error(404, "NoGroupError", "Group is not found.", r)
      [] operationId = "getGroup" ->
            IF a[1] \in r.groups THEN Response(200, [groupname |-> a[1]], r)
            ELSE Error(404, "NoGroupError", "Group is not found.", r)
      [] operationId = "deleteGroup" ->
            IF a[1] \in r.groups THEN Ok(200, [r EXCEPT !.groups = @ \ {a[1]}])
            ELSE Error(404, "NoGroupError", "Group is not found.", r)
      [] operationId \in {"getVirtualCluster", "getVirtualClusterSkuTypes"} ->
            IF a[1] = "default" THEN Response(200, [name |-> a[1]], r)
            ELSE Error(404, "NoVirtualClusterError", "Virtual cluster is not found.", r)
      [] operationId = "getStorages" ->
            Response(200, [storages |->
                ArrayOf([i \in 1..Len(r.storages) |-> [name |-> r.storages[i]]])], r)
      [] operationId = "getStorage" ->
            IF \E i \in 1..Len(r.storages) : r.storages[i] = a[1]
            THEN Response(200, [name |-> a[1]], r)
            ELSE Error(404, "NoStorageError", "Storage is not found.", r)
      [] operationId = "createJob" ->
            IF a[1].name \in DOMAIN r.jobs
            THEN Error(409, "ConflictJobError", "Job already exists.", r)
            ELSE Ok(202, [r EXCEPT !.jobs = With(@, a[1].name, "NONE")])
      [] operationId \in {"getJob", "getJobConfig", "getJobAttempts", "getJobAttempt"} ->
            IF a[2] \in DOMAIN r.jobs THEN Response(200, [name |-> a[2]], r)
            ELSE Error(404, "NoJobError", "Job is not found.", r)
      [] operationId = "updateJobExecutionType" ->
            IF a[2] \in DOMAIN r.jobs THEN Ok(202, [r EXCEPT !.jobs = With(@, a[2], a[3])])
            ELSE Error(404, "NoJobError", "Job is not found.", r)

AdminOperations ==
    {"createUser", "updateUser", "deleteUser", "createGroup", "updateGroup", "deleteGroup"}

\* POST /api/v2/authn/basic/login: no token is needed
Login(r, username, password) ==
    IF username \notin DOMAIN r.users
    THEN Error(400, "NoUserError", "User " \o username \o " is not found.", r)
    ELSE IF r.users[username].password # password
    THEN Error(400, "IncorrectPasswordError", "Password is incorrect.", r)
    ELSE Response(200, [token |-> NewToken(r), username |-> username,
                        admin |-> r.users[username].admin],
                  Issue(r, username, FALSE))

\* One call of a client holding `token`.  outcome "nominal": the service
\* behaves as documented; "error": it fails with a server error and
\* changes nothing; "accepted": it serves the call without checking the
\* caller's credentials.
Call(r, token, operationId, a, outcome) ==
    IF outcome = "error"
    THEN Error(500, "UnknownError", "Internal server error.", r)
    ELSE IF operationId = "basicLogin" THEN Login(r, a[1], a[2])
    ELSE IF outcome = "accepted" THEN Serve(r, clustersJson0.username, operationId, a)
    ELSE IF token \notin DOMAIN r.tokens
    THEN Error(401, "UnauthorizedUserError", "Your token is invalid.", r)
    ELSE IF operationId \in AdminOperations /\ r.tokens[token].application
    THEN Error(403, "ForbiddenUserError",
               "Applications are not allowed to do this operation.", r)
    ELSE IF operationId \in AdminOperations /\ ~r.users[r.tokens[token].user].admin
    THEN Error(403, "ForbiddenUserError",
               "Non-admin is not allow to do this operation.", r)
    ELSE IF operationId = "basicLogout"
    THEN Response(200, "Logout successfully", [r EXCEPT !.tokens = Without(@, token)])
    ELSE Serve(r, r.tokens[token].user, operationId, a)

\* the error a client throws for a response: none for a 2xx status
Thrown(resp) ==
    IF resp.status \in 200..299 THEN "none"
    ELSE IF resp.status = 401 THEN "UnauthorizedUserError"
    ELSE IF resp.status = 403 THEN "ForbiddenUserError"
    ELSE "Error"

-----------------------------------------------------------------------------
(* The customized test hooks.  Each takes the service, operationResults    *)
(* and the outcomes o of its remote calls, and gives [pass, remote, threw, *)
(* calls]: whether the hook resolved, the service afterwards, the error    *)
(* its credential-probing call threw and the number of calls it made.      *)

Hook(pass, r, threw, calls) == [pass |-> pass, remote |-> r, threw |-> threw, calls |-> calls]

UnauthorizedToken == "unauthorized user token"

getTokensWithUnauthorizedUserCatch(resp) ==
    Hook(Thrown(resp) \in {"none", "UnauthorizedUserError"}, resp.remote, Thrown(resp), 1)

getTokensWithUnauthorizedUser(r, results, o) ==
    getTokensWithUnauthorizedUserCatch(Call(r, UnauthorizedToken, "getTokens", <<>>, o[1]))

\* operationResults!.beforeResults![0].token
BeforeToken(results) == Field(results.beforeResults[1].value, "token", Undefined)

logoutWithCorrectTokenExpect(resp) ==
    Hook(Thrown(resp) = "none" /\ resp.body = "Logout successfully",
         resp.remote, Thrown(resp), 1)

logoutWithCorrectToken(r, results, o) ==
    IF results.beforeResults = <<>> THEN Hook(FALSE, r, "TypeError", 0)
    ELSE logoutWithCorrectTokenExpect(Call(r, BeforeToken(results), "basicLogout", <<>>, o[1]))

\* the await rejects when basicLogout throws, and chai rejects a string
\* given to .to.throw when it returns
logoutWithIncorrectTokenExpect(resp) == Hook(FALSE, resp.remote, Thrown(resp), 1)

logoutWithIncorrectToken(r, results, o) ==
    logoutWithIncorrectTokenExpect(Call(r, UnauthorizedToken, "basicLogout", <<>>, o[1]))

sdkTestUser == [username |-> "sdk_test_user", password |-> "test_password"]

\* the after() registered at the end of the hook belongs to the suite, not
\* to the table entry: nonadminTestUser outlives the hook
createUserByNonadminTokenCatch(c3) ==
    IF Thrown(c3) = "none" THEN Hook(TRUE, c3.remote, "none", 3)
    ELSE Hook(/\ c3.body.message = "Non-admin is not allow to do this operation."
              /\ Thrown(c3) = "ForbiddenUserError",
              c3.remote, Thrown(c3), 3)

createUserByNonadminTokenLogin(c2, o) ==
    IF Thrown(c2) # "none" THEN Hook(FALSE, c2.remote, "none", 2)
    ELSE createUserByNonadminTokenCatch(
             Call(c2.remote, c2.body.token, "createUser", <<sdkTestUser>>, o[3]))

createUserByNonadminTokenCreate(c1, o) ==
    IF Thrown(c1) # "none" /\ c1.body.code # "ConflictUserError"
    THEN Hook(FALSE, c1.remote, "none", 1)
    ELSE createUserByNonadminTokenLogin(
             Call(c1.remote, clustersJson0.token, "basicLogin",
                  <<"nonadminTestUser", "nonadminTestUser">>, o[2]), o)

createUserByNonadminToken(r, results, o) ==
    createUserByNonadminTokenCreate(
        Call(r, clustersJson0.token, "createUser",
             <<[admin |-> FALSE, username |-> "nonadminTestUser",
                password |-> "nonadminTestUser"]>>, o[1]), o)

createUserByApplicationTokenCatch(c) ==
    IF Thrown(c) = "none" THEN Hook(TRUE, c.remote, "none", 1)
    ELSE Hook(/\ c.body.message = "Applications are not allowed to do this operation."
              /\ Thrown(c) = "ForbiddenUserError",
              c.remote, Thrown(c), 1)

createUserByApplicationToken(r, results, o) ==
    IF results.beforeResults = <<>> THEN Hook(FALSE, r, "TypeError", 0)
    ELSE createUserByApplicationTokenCatch(
             Call(r, BeforeToken(results), "createUser", <<sdkTestUser>>, o[1]))

\* CustomizedTests[name](test, operationResults)
CustomizedTests(name, r, results, o) ==
    CASE name = "getTokensWithUnauthorizedUser" -> getTokensWithUnauthorizedUser(r, results, o)
      [] name = "logoutWithCorrectToken" -> logoutWithCorrectToken(r, results, o)
      [] name = "logoutWithIncorrectToken" -> logoutWithIncorrectToken(r, results, o)
      [] name = "createUserByNonadminToken" -> createUserByNonadminToken(r, results, o)
      [] name = "createUserByApplicationToken" -> createUserByApplicationToken(r, results, o)

\* the outcomes the service can give to the calls of a hook: any call may
\* fail with a server error; a call made with a credential that must be
\* refused may be accepted
HookOutcomes(name) ==
    CASE name \in {"getTokensWithUnauthorizedUser", "logoutWithIncorrectToken",
                   "createUserByApplicationToken"} ->
            {<<x>> : x \in {"nominal", "error", "accepted"}}
      [] name = "logoutWithCorrectToken" -> {<<x>> : x \in {"nominal", "error"}}
      [] name = "createUserByNonadminToken" ->
            {<<x, y, z>> : x \in {"nominal", "error"}, y \in {"nominal", "error"},
                           z \in {"nominal", "error", "accepted"}}

\* the calls of o, among the first n, answered off the documentation
OffNominal(o, n) == Cardinality({i \in 1..Len(o) : i <= n /\ o[i] # "nominal"})

-----------------------------------------------------------------------------
(* The execution of a table entry: before, the variants, after *)

\* the client method an entry's key stands for
DefaultOperation(key) ==
    CASE key = "get /api/v2/tokens" -> [tag |-> "token", operationId |-> "getTokens"]
      [] key = "delete /api/v2/tokens/{token}" -> [tag |-> "token", operationId |-> "deleteToken"]
      [] key = "post /api/v2/tokens/application" -> createApplicationToken
      [] key = "post /api/v2/authn/basic/login" -> [tag |-> "authn", operationId |-> "basicLogin"]
      [] key = "delete /api/v2/authn/basic/logout" -> [tag |-> "authn", operationId |-> "basicLogout"]
      [] key = "post /api/v2/users" -> [tag |-> "user", operationId |-> "createUser"]
      [] key = "put /api/v2/users" -> [tag |-> "user", operationId |-> "updateUser"]
      [] key = "put /api/v2/users/me" -> [tag |-> "user", operationId |-> "updateUserSelf"]
      [] key = "get /api/v2/users/{user}" -> [tag |-> "user", operationId |-> "getUser"]
      [] key = "delete /api/v2/users/{user}" -> [tag |-> "user", operationId |-> "deleteUser"]
      [] key = "post /api/v2/groups" -> [tag |-> "group", operationId |-> "createGroup"]
      [] key = "put /api/v2/groups" -> [tag |-> "group", operationId |-> "updateGroup"]
      [] key = "get /api/v2/groups/{group}" -> [tag |-> "group", operationId |-> "getGroup"]
      [] key = "delete /api/v2/groups/{group}" -> [tag |-> "group", operationId |-> "deleteGroup"]
      [] key = "get /api/v2/virtual-clusters/{vc}" ->
            [tag |-> "cluster", operationId |-> "getVirtualCluster"]
      [] key = "get /api/v2/virtual-clusters/{vc}/sku-types" ->
            [tag |-> "cluster", operationId |-> "getVirtualClusterSkuTypes"]
      [] key = "get /api/v2/storages/{storage}" -> [tag |-> "storage", operationId |-> "getStorage"]
      [] key = "post /api/v2/jobs" -> [tag |-> "job", operationId |-> "createJob"]
      [] key = "get /api/v2/jobs/{user}~{job}" -> [tag |-> "job", operationId |-> "getJob"]
      [] key = "get /api/v2/jobs/{user}~{job}/config" ->
            [tag |-> "job", operationId |-> "getJobConfig"]
      [] key = "put /api/v2/jobs/{user}~{job}/exectionType" ->
            [tag |-> "job", operationId |-> "updateJobExecutionType"]
      [] key = "get /api/v2/jobs/{user}~{job}/job-attempts" ->
            [tag |-> "job", operationId |-> "getJobAttempts"]
      [] key = "get /api/v2/jobs/{user}~{job}/job-attempts/{attemptIndex}" ->
            [tag |-> "job", operationId |-> "getJobAttempt"]

\* the operation of a variant: its partial operation over the key's
VariantOperation(c, test) == Spread(DefaultOperation(c.key), Field(test, "operation", <<>>))

\* a failed lookup (LookupError)
NotFound == [ok |-> FALSE, value |-> Undefined]

\* the value at resultPath inside a result
RECURSIVE Walk(_, _)
Walk(cur, path) ==
    IF path = <<>> THEN [ok |-> TRUE, value |-> cur]
    ELSE IF Head(path) \in DOMAIN cur THEN Walk(cur[Head(path)], Tail(path))
    ELSE NotFound

\* the parameter resolver (raw values need no lookup)
Lookup(param, results) ==
    LET list == results[param.resultType]
    IN  IF param.resultIndex + 1 > Len(list) THEN NotFound
        ELSE Walk(list[param.resultIndex + 1].value, param.resultPath)

Resolve(param, results) ==
    IF param.type = "raw" THEN [ok |-> TRUE, value |-> param.value]
    ELSE Lookup(param, results)

\* what the resolution of each fromResult parameter of op found: whether
\* the list holds an element at resultIndex, which entry's operation
\* produced it, and whether resultPath leads to a value in it
Lookups(op, results) ==
    LET fr == SelectSeq(Field(op, "parameters", <<>>), LAMBDA q : q.type = "fromResult")
    IN  [i \in 1..Len(fr) |->
            LET list == results[fr[i].resultType]
                held == fr[i].resultIndex + 1 <= Len(list)
            IN  [resultType |-> fr[i].resultType,
                 resultIndex |-> fr[i].resultIndex,
                 held |-> held,
                 producedIn |-> IF held THEN list[fr[i].resultIndex + 1].entry ELSE 0,
                 producer |-> IF held THEN [stage |-> list[fr[i].resultIndex + 1].stage,
                                            idx |-> list[fr[i].resultIndex + 1].idx]
                              ELSE [stage |-> "none", idx |-> 0],
                 reachable |-> Lookup(fr[i], results).ok]]

Resolvable(op, results) ==
    \A i \in 1..Len(Field(op, "parameters", <<>>)) : Resolve(op.parameters[i], results).ok

Arguments(op, results) ==
    [i \in 1..Len(Field(op, "parameters", <<>>)) |-> Resolve(op.parameters[i], results).value]

\* the operation invoker: the default client holds the cluster's token
Invoke(r, op, results, outcome) ==
    Call(r, clustersJson0.token, op.operationId, Arguments(op, results), outcome)

\* the response a variant is compared against: the one declared with its
\* operation, or by default any 2xx status
AnySuccess == [class |-> "2xx"]

Expected(op) == Field(op, "response", AnySuccess)

\* status code equality, and deep-subset equality of expectResult
Matches(resp, expected) ==
    IF "statusCode" \notin DOMAIN expected THEN resp.status \in 200..299
    ELSE /\ resp.status = expected.statusCode
         /\ "expectResult" \in DOMAIN expected =>
                \A k \in DOMAIN expected.expectResult :
                    k \in DOMAIN resp.body /\ resp.body[k] = expected.expectResult[k]

Case == table[entry]

StageOps(c, st) == Field(c, st, <<>>)

\* the next operation to run from (st, i) on: a stage that is exhausted
\* hands over to the following one
RECURSIVE Position(_, _, _)
Position(c, st, i) ==
    IF st = "done" THEN [stage |-> "done", idx |-> 0]
    ELSE IF i <= Len(StageOps(c, st)) THEN [stage |-> st, idx |-> i]
    ELSE Position(c, CASE st = "before" -> "tests" [] st = "tests" -> "after"
                          [] st = "after" -> "done", 1)

\* The mutant ends the test case at a failed variant, without teardown.
MutAfterVariant(c, i, aborted, pass) ==
    IF aborted \/ ~pass THEN Position(c, "done", 1) ELSE Position(c, "tests", i + 1)

\* where the execution goes after a variant: a parameter that cannot be
\* resolved ends the variants, and teardown follows; a variant that fails
\* its comparison does not stop the other variants
AfterVariant(c, i, aborted, pass) ==
    IF aborted THEN Position(c, "after", 1) ELSE Position(c, "tests", i + 1)

\* the outcomes the service can give to the call of a declarative operation
Outcomes == {"nominal", "error"}

NoResponse == [status |-> 0, body |-> <<>>]

\* a step of the log
Step(st, i, name, lookups, invoked, resp, expected, pass, threw) ==
    [stage |-> st, idx |-> i, name |-> name, lookups |-> lookups,
     invoked |-> invoked, status |-> resp.status, body |-> resp.body,
     expected |-> expected, pass |-> pass, threw |-> threw]

\* the step of an operation whose parameters cannot be resolved
Unresolved(st, i, op, results) ==
    Step(st, i, "operation", Lookups(op, results), FALSE, NoResponse, Expected(op), FALSE,
         "LookupError")

\* the step of an operation that was invoked and answered resp
Invoked(st, i, op, results, resp, pass) ==
    Step(st, i, "operation", Lookups(op, results), TRUE, resp, Expected(op), pass,
         Thrown(resp))

NoResults == [beforeResults |-> <<>>, testResults |-> <<>>]

RunnerIdle ==
    /\ draws = <<>>
    /\ table = <<>>
    /\ entry = 0
    /\ stage = "off"
    /\ idx = 0
    /\ opResults = NoResults
    /\ remote = InitialRemote
    /\ budget = 0
    /\ log = <<>>
    /\ randomString = NewRandomString
    /\ rsCalls = <<>>

\* the clusters the table may be run against: the table takes the first
\* storage of the cluster, and a cluster may have none
Clusters == {InitialRemote, [InitialRemote EXCEPT !.storages = <<>>]}

RunnerStart(b, clusters) ==
    \* crypto.randomBytes(4).toString('hex'), once per call of RandomString.new
    /\ draws = <<"0a", "1b", "2c", "3d", "4e", "5f">>
    /\ table = ApiDefaultTestCases(draws)
    /\ entry = 1
    /\ stage = "idle"
    /\ idx = 0
    /\ opResults = NoResults
    /\ remote \in clusters
    /\ budget = b
    /\ log = <<>>
    \* the last createTestJob() of the table left its string in randomString
    /\ randomString = [data |-> draws[Len(draws)], n |-> Len(draws)]
    /\ rsCalls = <<>>

Goto(pos) == stage' = pos.stage /\ idx' = pos.idx

\* the service has answered a call: an answer off the documentation is
\* taken from the budget
Answered(resp, outcome) ==
    /\ OffNominal(<<outcome>>, 1) <= budget
    /\ budget' = budget - OffNominal(<<outcome>>, 1)
    /\ remote' = resp.remote

\* a test case begins: operationResults is created for it
StartEntry ==
    /\ stage = "idle"
    /\ entry <= Len(table)
    /\ opResults' = NoResults
    /\ log' = <<>>
    /\ Goto(Position(Case, "before", 1))
    /\ UNCHANGED <<draws, table, entry, remote, budget>>
    /\ UNCHANGED <<randomString, rsCalls>>
    /\ UNCHANGED <<tvars, jvars>>

\* one before operation
RunBefore ==
    /\ stage = "before"
    /\ \E op \in {Case.before[idx]} :
          IF ~Resolvable(op, opResults)
          THEN /\ log' = Append(log, Unresolved("before", idx, op, opResults))
               /\ Goto(Position(Case, "after", 1))
               /\ UNCHANGED <<opResults, remote, budget>>
          ELSE \E outcome \in Outcomes :
                  \E resp \in {Invoke(remote, op, opResults, outcome)} :
                      \E ok \in {Thrown(resp) = "none"} :
                          /\ Answered(resp, outcome)
                          /\ opResults' = IF ok
                                THEN [opResults EXCEPT !.beforeResults =
                                          Append(@, [entry |-> entry, stage |-> "before",
                                                     idx |-> idx, value |-> resp.body])]
                                ELSE opResults
                          /\ log' = Append(log, Invoked("before", idx, op, opResults, resp, ok))
                          /\ Goto(IF ok THEN Position(Case, "before", idx + 1)
                                        ELSE Position(Case, "after", 1))
    /\ UNCHANGED <<draws, table, entry>>
    /\ UNCHANGED <<randomString, rsCalls>>
    /\ UNCHANGED <<tvars, jvars>>

\* one declarative variant: its operation runs and the result is compared
\* against the expected response
RunTest ==
    /\ stage = "tests"
    /\ "customizedTest" \notin DOMAIN Case.tests[idx]
    /\ \E op \in {VariantOperation(Case, Case.tests[idx])} :
          IF ~Resolvable(op, opResults)
          THEN /\ log' = Append(log, Unresolved("tests", idx, op, opResults))
               /\ Goto(AfterVariant(Case, idx, TRUE, FALSE))
               /\ UNCHANGED <<opResults, remote, budget>>
          ELSE \E outcome \in Outcomes :
                  \E resp \in {Invoke(remote, op, opResults, outcome)} :
                      \E pass \in {Matches(resp, Expected(op))} :
                          /\ Answered(resp, outcome)
                          /\ opResults' = [opResults EXCEPT !.testResults =
                                              Append(@, [entry |-> entry, stage |-> "tests",
                                                         idx |-> idx, value |-> resp.body])]
                          /\ log' = Append(log, Invoked("tests", idx, op, opResults, resp, pass))
                          /\ Goto(AfterVariant(Case, idx, FALSE, pass))
    /\ UNCHANGED <<draws, table, entry>>
    /\ UNCHANGED <<randomString, rsCalls>>
    /\ UNCHANGED <<tvars, jvars>>

\* one variant with a customized test: the hook is given the variant and
\* operationResults
RunHook ==
    /\ stage = "tests"
    /\ "customizedTest" \in DOMAIN Case.tests[idx]
    /\ \E name \in {Case.tests[idx].customizedTest} :
          \E o \in HookOutcomes(name) :
              \E h \in {CustomizedTests(name, remote, opResults, o)} :
                  /\ OffNominal(o, Len(o)) = OffNominal(o, h.calls)
                  /\ OffNominal(o, h.calls) <= budget
                  /\ budget' = budget - OffNominal(o, h.calls)
                  /\ remote' = h.remote
                  /\ log' = Append(log, Step("tests", idx, name, <<>>, h.calls > 0, NoResponse,
                                             AnySuccess, h.pass, h.threw))
                  /\ Goto(AfterVariant(Case, idx, FALSE, h.pass))
    /\ UNCHANGED <<draws, table, entry, opResults>>
    /\ UNCHANGED <<randomString, rsCalls>>
    /\ UNCHANGED <<tvars, jvars>>

\* one after operation: every one of them is attempted
RunAfter ==
    /\ stage = "after"
    /\ \E op \in {Case.after[idx]} :
          IF ~Resolvable(op, opResults)
          THEN /\ log' = Append(log, Unresolved("after", idx, op, opResults))
               /\ UNCHANGED <<remote, budget>>
          ELSE \E outcome \in Outcomes :
                  \E resp \in {Invoke(remote, op, opResults, outcome)} :
                      /\ Answered(resp, outcome)
                      /\ log' = Append(log, Invoked("after", idx, op, opResults, resp,
                                                    Thrown(resp) = "none"))
    /\ Goto(Position(Case, "after", idx + 1))
    /\ UNCHANGED <<draws, table, entry, opResults>>
    /\ UNCHANGED <<randomString, rsCalls>>
    /\ UNCHANGED <<tvars, jvars>>

\* the test case is over: operationResults is dropped with it
FinishEntry ==
    /\ stage = "done"
    /\ entry' = entry + 1
    /\ stage' = "idle"
    /\ idx' = 0
    /\ UNCHANGED <<draws, table, opResults, remote, budget, log>>
    /\ UNCHANGED <<randomString, rsCalls>>
    /\ UNCHANGED <<tvars, jvars>>

-----------------------------------------------------------------------------
(* Properties of the execution of the table *)

\* a test case is being executed, and log holds its steps so far
Running == stage \in {"before", "tests", "after", "done"}

StepsOf(st) == SelectSeq(log, LAMBDA x : x.stage = st)

Indices(steps) == [i \in 1..Len(steps) |-> steps[i].idx]

UpTo(n) == [i \in 1..n |-> i]

StageRank(st) == CASE st = "before" -> 1 [] st = "tests" -> 2 [] st = "after" -> 3

Failed(st) == \E i \in 1..Len(log) : log[i].stage = st /\ ~log[i].pass

\* C1: the steps of a test case are taken in the order before, variants,
\* after, each list in its order; a variant starts only when every before
\* operation has completed; no after operation starts while a variant is
\* still to run; and when the test case is over every after operation has
\* been attempted, whether the variants passed, failed their comparison, got
\* an error of the service or could not resolve a parameter.
C1_StagesInOrder ==
    Running =>
        /\ \A i, j \in 1..Len(log) : i < j =>
                \/ StageRank(log[i].stage) < StageRank(log[j].stage)
                \/ log[i].stage = log[j].stage /\ log[i].idx < log[j].idx
        /\ (stage = "tests" \/ StepsOf("tests") # <<>>) =>
                /\ Indices(StepsOf("before")) = UpTo(Len(StageOps(Case, "before")))
                /\ ~Failed("before")
        /\ stage \in {"before", "tests"} => StepsOf("after") = <<>>
        /\ stage = "done" => Indices(StepsOf("after")) = UpTo(Len(StageOps(Case, "after")))

\* a test case with setup and teardown is over, one of its variants failed,
\* and its after operations were all attempted
C1_Witness ==
    /\ stage = "done"
    /\ StepsOf("before") # <<>>
    /\ Failed("tests")
    /\ StepsOf("after") # <<>>
    /\ Indices(StepsOf("after")) = UpTo(Len(Case.after))

\* the same, with a variant that could not resolve a parameter
C1_WitnessLookupError ==
    /\ stage = "done"
    /\ \E i \in 1..Len(log) : log[i].stage = "tests" /\ log[i].threw = "LookupError"
    /\ Indices(StepsOf("after")) = UpTo(Len(StageOps(Case, "after")))

\* an after operation has failed, and the next one was attempted
C1_WitnessAfterFailed ==
    /\ stage = "done"
    /\ \E i \in 1..Len(log) : log[i].stage = "after" /\ ~log[i].pass /\ i < Len(log)

C2_WitnessBefore ==
    /\ Running
    /\ \E i \in 1..Len(log) :
            /\ log[i].stage = "tests"
            /\ \E k \in 1..Len(log[i].lookups) :
                    /\ log[i].lookups[k].resultType = "beforeResults"
                    /\ log[i].invoked

InCase(key) == Running /\ Case.key = key

\* C3: in the entry that creates users, the conflict variant creates the
\* user the first variant created; the first creation succeeded, and the
\* second one is answered 409, the status the variant expects.
C3_SecondCreationConflicts ==
    InCase("post /api/v2/users") =>
        /\ VariantOperation(Case, Case.tests[2]).operationId = "createUser"
        /\ VariantOperation(Case, Case.tests[2]).parameters[1].value.username
                = VariantOperation(Case, Case.tests[1]).parameters[1].value.username
        /\ \A i \in 1..Len(log) : (log[i].stage = "tests" /\ log[i].idx = 2) =>
                /\ \E j \in 1..(i - 1) :
                        /\ log[j].stage = "tests"
                        /\ log[j].idx = 1
                        /\ log[j].status \in 200..299
                /\ log[i].status = 409
                /\ log[i].expected.statusCode = 409
                /\ log[i].pass

C3_Witness ==
    /\ InCase("post /api/v2/users")
    /\ \E i \in 1..Len(log) : log[i].stage = "tests" /\ log[i].idx = 2 /\ log[i].status = 409

LoginExpectations ==
    <<AnySuccess,
      [statusCode |-> 400,
       expectResult |-> [code |-> "NoUserError",
                         message |-> "User nonexistentuser is not found."]],
      [statusCode |-> 400,
       expectResult |-> [code |-> "IncorrectPasswordError",
                         message |-> "Password is incorrect."]]>>

LoginArguments ==
    <<<<clustersJson0.username, clustersJson0.password>>,
      <<"nonexistentuser", "password">>,
      <<clustersJson0.username, "incorrectpassword">>>>

C9_WitnessMismatch ==
    /\ InCase("post /api/v2/authn/basic/login")
    /\ \E i \in 1..Len(log) : log[i].stage = "tests" /\ log[i].idx = 3 /\ ~log[i].pass

ExpectedErrorKind(name) ==
    IF name \in {"getTokensWithUnauthorizedUser", "logoutWithIncorrectToken"}
    THEN "UnauthorizedUserError" ELSE "ForbiddenUserError"

CredentialHooks ==
    {"getTokensWithUnauthorizedUser", "logoutWithIncorrectToken",
     "createUserByApplicationToken", "createUserByNonadminToken"}

\* C10: a hook that probes an invalid or under-privileged credential
\* passes only if its call threw the expected kind of error.
C10_PassOnlyOnExpectedError ==
    Running =>
        \A i \in 1..Len(log) : (log[i].name \in CredentialHooks /\ log[i].pass) =>
            log[i].threw = ExpectedErrorKind(log[i].name)

-----------------------------------------------------------------------------
(* The object randomString: the table as loaded, and rsCalls of new and get *)

\* what crypto.randomBytes may give to the six createTestJob() of the
\* table: six different strings, or the same string twice
LoadDraws ==
    LET b == <<"0a", "1b", "2c", "3d", "4e", "5f">>
    IN  {[b EXCEPT ![i] = b[j]] : i, j \in 1..6}

LoadInit ==
    /\ draws \in LoadDraws
    /\ table = ApiDefaultTestCases(draws)
    /\ entry = 0
    /\ stage = "load"
    /\ idx = 0
    /\ opResults = NoResults
    /\ remote = InitialRemote
    /\ budget = 0
    /\ log = <<>>
    /\ randomString = NewRandomString
    /\ rsCalls = <<>>
    /\ TemplateIdle
    /\ JsonIdle

\* randomString.new()
CallNew ==
    /\ stage = "load"
    /\ Len(rsCalls) < MaxCalls
    /\ randomString' = RsNew(randomString, draws)
    /\ rsCalls' = Append(rsCalls, [method |-> "new", returned |-> randomString'.data,
                               drew |-> randomString'.n # randomString.n])
    /\ UNCHANGED <<draws, table, entry, stage, idx, opResults, remote, budget, log>>
    /\ UNCHANGED <<tvars, jvars>>

\* randomString.get()
CallGet ==
    /\ stage = "load"
    /\ Len(rsCalls) < MaxCalls
    /\ randomString' = RsGet(randomString, draws)
    /\ rsCalls' = Append(rsCalls, [method |-> "get", returned |-> randomString'.data,
                               drew |-> randomString'.n # randomString.n])
    /\ UNCHANGED <<draws, table, entry, stage, idx, opResults, remote, budget, log>>
    /\ UNCHANGED <<tvars, jvars>>

\* the operations of a table entry
OperationsOf(c) ==
    {StageOps(c, "before")[i] : i \in 1..Len(StageOps(c, "before"))}
    \cup {VariantOperation(c, c.tests[i]) : i \in 1..Len(c.tests)}
    \cup {StageOps(c, "after")[i] : i \in 1..Len(StageOps(c, "after"))}

\* the names of the jobs an entry creates, and the names of the jobs its
\* other operations address
CreatedNames(c) ==
    {op.parameters[1].value.name : op \in {o \in OperationsOf(c) : o.operationId = "createJob"}}

UsedNames(c) ==
    {op.parameters[2].value : op \in {o \in OperationsOf(c) : o.tag = "job"
                                                            /\ o.operationId # "createJob"}}

JobEntries == {e \in 1..Len(table) : CreatedNames(table[e]) # {}}

\* the createTestJob() of entry e is the JobIndex(e)-th one in source order
JobIndex(e) == Cardinality({f \in JobEntries : f <= e})

\* get() returns what the latest new() returned, generates a string only
\* as the first call, and new() returns a string newly drawn
GetReturnsLatest ==
    \A i \in 1..Len(rsCalls) :
        /\ rsCalls[i].method = "new" =>
                /\ rsCalls[i].drew
                /\ rsCalls[i].returned
                        = draws[Cardinality({j \in 1..i : rsCalls[j].drew})]
        /\ rsCalls[i].method = "get" =>
                /\ rsCalls[i].drew = (i = 1)
                /\ i > 1 => rsCalls[i].returned = rsCalls[i - 1].returned
                /\ \A j \in 1..(i - 1) :
                        (/\ rsCalls[j].method = "new"
                         /\ \A k \in (j + 1)..(i - 1) : rsCalls[k].method = "get")
                            => rsCalls[i].returned = rsCalls[j].returned

\* every job entry creates one job, named after its own draw, and its
\* other operations address that job
OwnJobName ==
    \A e \in JobEntries :
        /\ CreatedNames(table[e]) = {"sdk_test_job" \o draws[JobIndex(e)]}
        /\ UsedNames(table[e]) # {}
        /\ UsedNames(table[e]) \subseteq CreatedNames(table[e])

\* C11 as stated: get() returns the string of the latest new(), and every
\* job entry of the table addresses the job it created and never the job
\* created for another entry.
C11_Original ==
    /\ GetReturnsLatest
    /\ OwnJobName
    /\ \A e, f \in JobEntries :
            e # f => UsedNames(table[e]) \cap CreatedNames(table[f]) = {}

\* C11: get() returns the string of the latest new(), every job entry of
\* the table addresses the job it created, and it addresses the job created
\* for another entry only if crypto.randomBytes gave both entries the same
\* string.
C11_OwnJobName ==
    /\ GetReturnsLatest
    /\ OwnJobName
    /\ \A e, f \in JobEntries :
            (e # f /\ draws[JobIndex(e)] # draws[JobIndex(f)])
                => UsedNames(table[e]) \cap CreatedNames(table[f]) = {}

\* the table has its six job entries, built from six different strings,
\* and get() was called after a second new()
C11_Witness ==
    /\ Cardinality(JobEntries) = 6
    /\ \A e, f \in JobEntries : e # f => draws[JobIndex(e)] # draws[JobIndex(f)]
    /\ \E i \in 3..Len(rsCalls) :
            /\ rsCalls[i].method = "get"
            /\ rsCalls[i - 1].method = "new"
            /\ \E j \in 1..(i - 2) : rsCalls[j].method = "new"

-----------------------------------------------------------------------------
(* What an entry leaves on the remote service *)

\* the tokens the declarative before and test operations of the current
\* entry were given
TokensCreated ==
    {log[i].body.token : i \in {j \in 1..Len(log) : /\ log[j].stage \in {"before", "tests"}
                                                     /\ log[j].name = "operation"
                                                     /\ log[j].status \in 200..299
                                                     /\ "token" \in DOMAIN log[j].body}}

TestUserExists == "sdk_test_user" \in DOMAIN remote.users

TestGroupExists == "sdktestgroup" \in remote.groups

\* C12: when an entry completes, run with every operation answered as
\* expected, sdk_test_user and sdktestgroup do not exist, no token that a
\* before or test operation of the entry was given is still valid, and
\* the last execution type requested for each job the entry created is
\* STOP; and every entry starts without sdk_test_user and sdktestgroup.
C12_NoLeakAcrossEntries ==
    /\ stage \in {"idle", "done"} => ~TestUserExists /\ ~TestGroupExists
    /\ stage = "done" =>
            /\ TokensCreated \cap DOMAIN remote.tokens = {}
            /\ \A n \in CreatedNames(Case) :
                    n \in DOMAIN remote.jobs /\ remote.jobs[n] = "STOP"

\* the entry that creates users is over: it was given a token and created
\* sdk_test_user, and its after operations have run
C12_Witness ==
    /\ InCase("post /api/v2/users")
    /\ stage = "done"
    /\ TokensCreated # {}
    /\ \E i \in 1..Len(log) :
            log[i].stage = "tests" /\ log[i].idx = 1 /\ log[i].status \in 200..299
    /\ Len(StepsOf("after")) = 2
    /\ ~Failed("after")

\* an entry that created a job and started it again is over
C12_WitnessJob ==
    /\ InCase("put /api/v2/jobs/{user}~{job}/exectionType")
    /\ stage = "done"
    /\ CreatedNames(Case) \subseteq DOMAIN remote.jobs
    /\ ~Failed("tests")

-----------------------------------------------------------------------------
(* Specifications *)

TemplateInit == TemplateInputs /\ JsonIdle /\ RunnerIdle
SpecTemplate == TemplateInit /\ [][CallJobTemplate]_vars

JsonInit == JsonInputs /\ TemplateIdle /\ RunnerIdle
SpecJson == JsonInit /\ [][CallReadJson \/ CallWriteJson]_vars

Next == StartEntry \/ RunBefore \/ RunTest \/ RunHook \/ RunAfter \/ FinishEntry

\* the table run against any cluster, whose service may answer up to
\* MaxFailures calls off its documentation
Init == RunnerStart(MaxFailures, Clusters) /\ TemplateIdle /\ JsonIdle
Spec == Init /\ [][Next]_vars

\* the table run against a cluster with a storage, whose service answers
\* every call as documented
InitExpected == RunnerStart(0, {InitialRemote}) /\ TemplateIdle /\ JsonIdle
SpecExpected == InitExpected /\ [][Next]_vars

\* the module of the table loaded, and randomString called in any order
SpecLoad == LoadInit /\ [][CallNew \/ CallGet]_vars

=============================================================================
